---- MODULE Spec2Model ----
(***************************************************************************)
(* Model of get-books.py: a single-threaded scraper that walks a fixed     *)
(* range of listing pages, builds one Book per listing anchor and streams  *)
(* each book into the download folder, skipping files already present and  *)
(* deleting the in-flight file when the user interrupts a download.        *)
(*                                                                         *)
(* Strings are sequences of one-character strings, so that strip(),        *)
(* replace() and concatenation are computed character by character.        *)
(* The download folder is a function from file names to file contents; a   *)
(* file's content is the sequence of bytes written to it.                  *)
(***************************************************************************)
EXTENDS Integers, Sequences, FiniteSets, TLC

VARIABLES
    overwrite,     \* BooksDownloader._overwrite
    file_format,   \* main: file_format, a Formatter
    page_number,   \* main: loop variable of the page loop
    status_code,   \* get_page: status of the last listing response
    books,         \* main: the Books extracted from the current page
    idx,           \* main: position of `book` in books (0: none yet)
    pc,            \* position of the process, or the way it terminated
    dir,           \* the download folder: file name -> bytes
    resp_ok,       \* get_book: r, whether the streamed response is not an error status
    pos,           \* get_book: number of chunks consumed from r.iter_content
    opened,        \* get_book: the current call has opened its target file for writing
    requests,      \* number of download GETs issued by the current get_book call
    dirBefore,     \* the folder as it was when the current get_book call was entered
    completed,     \* files written by get_book calls of this run that returned
    item           \* Book.__init__: the listing anchor a Book is being built from

vars == <<overwrite, file_format, page_number, status_code, books, idx, pc, dir,
          resp_ok, pos, opened, requests, dirBefore, completed, item>>

(***************************************************************************)
(* Bounds of the model.                                                    *)
(***************************************************************************)
MaxPage == 2        \* last page of the crawled range (24 in main)
MaxBooks == 2       \* anchors on one listing page
NChunks == 3        \* chunks yielded by r.iter_content for one download
MaxTitleLen == 3    \* characters of an anchor text
MaxPieces == 3      \* pieces an href is assembled from

(***************************************************************************)
(* Strings.                                                                *)
(***************************************************************************)
BASE_URL == <<"h","t","t","p","s",":","/","/","l","i","n","k",".",
              "s","p","r","i","n","g","e","r",".","c","o","m">>

Formatter(url_modifier, extension) ==
    [url_modifier |-> url_modifier, extension |-> extension]

FormatsPdf == Formatter(<<"c","o","n","t","e","n","t","/","p","d","f","/">>,
                        <<"p","d","f">>)

FormatsEpub == Formatter(<<"d","o","w","n","l","o","a","d","/","e","p","u","b","/">>,
                         <<"e","p","u","b">>)

Formats == {FormatsPdf, FormatsEpub}

windows_bad_chars == <<"\\", "/", ":", "*", "?", "<", ">", "|">>

Whitespace == {" ", "\t", "\n"}

Marker == <<"b","o","o","k","/">>

\* str.strip(): leading, then trailing whitespace is dropped
RECURSIVE LStrip(_)
LStrip(s) ==
    IF s = <<>> THEN s
    ELSE IF Head(s) \in Whitespace THEN LStrip(Tail(s)) ELSE s

RECURSIVE RStrip(_)
RStrip(s) ==
    IF s = <<>> THEN s
    ELSE IF s[Len(s)] \in Whitespace THEN RStrip(SubSeq(s, 1, Len(s) - 1)) ELSE s

Strip(s) == RStrip(LStrip(s))

StartsWith(s, old) ==
    /\ Len(s) >= Len(old)
    /\ SubSeq(s, 1, Len(old)) = old

\* str.replace(old, new): every non-overlapping occurrence, left to right
RECURSIVE Replace(_, _, _)
Replace(s, old, new) ==
    IF Len(s) < Len(old) THEN s
    ELSE IF StartsWith(s, old)
         THEN new \o Replace(SubSeq(s, Len(old) + 1, Len(s)), old, new)
         ELSE <<Head(s)>> \o Replace(Tail(s), old, new)

\* the for loop of _clean_title over windows_bad_chars, from position i on
RECURSIVE CleanLoop(_, _)
CleanLoop(title, i) ==
    IF i > Len(windows_bad_chars) THEN title
    ELSE CleanLoop(Replace(title, <<windows_bad_chars[i]>>, <<>>), i + 1)

CleanTitle(title) == CleanLoop(Strip(title), 1)

Book(title, href, formatter) ==
    [_title |-> CleanTitle(title), _href |-> href, _formatter |-> formatter]

FileName(book) == book._title \o <<".">> \o book._formatter.extension

\* the extension is appended without its dot
DownloadUrlNoDot(book) ==
    BASE_URL \o Replace(book._href, Marker, book._formatter.url_modifier)
             \o book._formatter.extension

DownloadUrl(book) ==
    BASE_URL \o Replace(book._href, Marker, book._formatter.url_modifier)
             \o <<".">> \o book._formatter.extension

(***************************************************************************)
(* The site and the download folder.                                       *)
(***************************************************************************)
\* anchors the listing pages may carry: <a class="title" href=...>text</a>
Anchor(text, href) == [text |-> text, href |-> href]

Items ==
    { Anchor(<<"a">>, <<"/","b","o","o","k","/","1">>),
      Anchor(<<" ","a",":">>, <<"/","b","o","o","k","/","2">>),
      Anchor(<<"b">>, <<"/","b","o","o","k","/","3">>) }

\* what page.find_all("a", {"class": "title"}) can return for one page
Listings == UNION { [1..n -> Items] : n \in 0..MaxBooks }

StatusCodes == {200, 404}

\* the i-th chunk r.iter_content yields for a download: data chunks are
\* interleaved with empty (keep-alive) chunks
Chunk(url, i) == IF i % 2 = 0 THEN <<>> ELSE << <<url, i>> >>

RECURSIVE Received(_, _)
Received(url, n) == IF n = 0 THEN <<>> ELSE Received(url, n - 1) \o Chunk(url, n)

Payload(url) == Received(url, NChunks)

\* a file left by an earlier run: the whole payload the site served then
OldPayload == << <<<<"o","l","d">>, 1>> >>

\* a file of the folder that no book of the listing is named after
OtherFile == <<"n","o","t","e","s">>

InitialNames == { FileName(Book(it.text, it.href, FormatsPdf)) : it \in Items }
                    \cup {OtherFile}

Exists(d, f) == f \in DOMAIN d

EmptyDir == [f \in {} |-> <<>>]

\* open(file_path, "ab"): an existing file keeps its bytes
OpenAppend(d, f) == [g \in DOMAIN d \cup {f} |-> IF Exists(d, g) THEN d[g] ELSE <<>>]

\* open(file_path, "wb"): the file is created, or truncated to no bytes
OpenWb(d, f) == [g \in DOMAIN d \cup {f} |-> IF g = f THEN <<>> ELSE d[g]]

\* f.write(chunk)
Write(d, f, chunk) == [d EXCEPT ![f] = @ \o chunk]

\* the whole folder is emptied
RemoveAll(d, f) == EmptyDir

\* os.remove(file_path) on an existing file
Remove(d, f) == [g \in DOMAIN d \ {f} |-> d[g]]

NoItem == Anchor(<<>>, <<>>)

(***************************************************************************)
(* Positions of the process.                                               *)
(***************************************************************************)
GbPcs == {"gb_check", "gb_skip", "gb_request", "gb_status", "gb_open",
          "gb_write", "gb_done"}

RunningPcs == {"for_page", "get_page", "for_book", "except"} \cup GbPcs

TerminalPcs == {"done", "forced", "UnboundLocalError", "HTTPError",
                "FileNotFoundError", "ConnectionError", "KeyboardInterrupt"}

\* the book of the current (or most recent) get_book call
book == books[idx]

Target == FileName(book)

Init ==
    /\ overwrite \in BOOLEAN
    /\ file_format = FormatsPdf
    /\ page_number = 1
    /\ status_code = 200
    /\ books = <<>>
    /\ idx = 0
    /\ pc = "for_page"
    /\ \E present \in SUBSET InitialNames : dir = [f \in present |-> OldPayload]
    /\ resp_ok = TRUE
    /\ pos = 0
    /\ opened = FALSE
    /\ requests = 0
    /\ dirBefore = dir
    /\ completed = EmptyDir
    /\ item = NoItem

(***************************************************************************)
(* main: the page loop and the book loop.                                  *)
(***************************************************************************)
ForPage ==
    /\ pc = "for_page"
    /\ pc' = IF page_number <= MaxPage THEN "get_page" ELSE "done"
    /\ UNCHANGED <<overwrite, file_format, page_number, status_code, books, idx,
                   dir, resp_ok, pos, opened, requests, dirBefore, completed, item>>

get_books_from_page(listing, formatter) ==
    [i \in 1..Len(listing) |-> Book(listing[i].text, listing[i].href, formatter)]

\* get_page followed by get_books_from_page.  On a status other than 200 the
\* else branch formats `page`, a local that is only bound in the 200 branch.
GetPage ==
    /\ pc = "get_page"
    /\ \E status \in StatusCodes, listing \in Listings :
        /\ status_code' = status
        /\ IF status = 200
           THEN /\ books' = get_books_from_page(listing, file_format)
                /\ idx' = 0
                /\ pc' = "for_book"
           ELSE /\ pc' = "UnboundLocalError"
                /\ UNCHANGED <<books, idx>>
    /\ UNCHANGED <<overwrite, file_format, page_number, dir, resp_ok, pos,
                   opened, requests, dirBefore, completed, item>>

ForBook ==
    /\ pc = "for_book"
    /\ IF idx < Len(books)
       THEN /\ idx' = idx + 1
            /\ pc' = "gb_check"
            /\ dirBefore' = dir
            /\ requests' = 0
            /\ opened' = FALSE
            /\ pos' = 0
            /\ resp_ok' = TRUE
            /\ UNCHANGED page_number
       ELSE /\ page_number' = page_number + 1
            /\ pc' = "for_page"
            /\ UNCHANGED <<idx, dirBefore, requests, opened, pos, resp_ok>>
    /\ UNCHANGED <<overwrite, file_format, status_code, books, dir, completed, item>>

(***************************************************************************)
(* BooksDownloader.get_book                                                *)
(***************************************************************************)
\* the overwrite flag is read the wrong way round
SkipConditionInverted(d, f, ow) == Exists(d, f) /\ ow

SkipCondition(d, f, ow) == Exists(d, f) /\ ~ow

GbCheck ==
    /\ pc = "gb_check"
    /\ pc' = IF SkipCondition(dir, Target, overwrite) THEN "gb_skip" ELSE "gb_request"
    /\ UNCHANGED <<overwrite, file_format, page_number, status_code, books, idx,
                   dir, resp_ok, pos, opened, requests, dirBefore, completed, item>>

GbSkip ==
    /\ pc = "gb_skip"
    /\ pc' = "for_book"
    /\ UNCHANGED <<overwrite, file_format, page_number, status_code, books, idx,
                   dir, resp_ok, pos, opened, requests, dirBefore, completed, item>>

GbRequest ==
    /\ pc = "gb_request"
    /\ resp_ok' \in BOOLEAN
    /\ requests' = requests + 1
    /\ pc' = "gb_status"
    /\ UNCHANGED <<overwrite, file_format, page_number, status_code, books, idx,
                   dir, pos, opened, dirBefore, completed, item>>

\* the status is looked at only after the target file has been opened
RaiseAfterOpen ==
    /\ pc = "gb_status"
    /\ IF resp_ok
       THEN /\ pc' = "gb_open"
            /\ UNCHANGED <<dir, opened>>
       ELSE /\ dir' = OpenWb(dir, Target)
            /\ opened' = TRUE
            /\ pc' = "HTTPError"
    /\ UNCHANGED <<overwrite, file_format, page_number, status_code, books, idx,
                   resp_ok, pos, requests, dirBefore, completed, item>>

RaiseForStatus ==
    /\ pc = "gb_status"
    /\ pc' = IF resp_ok THEN "gb_open" ELSE "HTTPError"
    /\ UNCHANGED <<overwrite, file_format, page_number, status_code, books, idx,
                   dir, resp_ok, pos, opened, requests, dirBefore, completed, item>>

GbOpen ==
    /\ pc = "gb_open"
    /\ dir' = OpenWb(dir, Target)
    /\ opened' = TRUE
    /\ pc' = "gb_write"
    /\ UNCHANGED <<overwrite, file_format, page_number, status_code, books, idx,
                   resp_ok, pos, requests, dirBefore, completed, item>>

\* one turn of the loop over r.iter_content: an empty chunk is not written;
\* when the stream is exhausted the file is closed
GbWrite ==
    /\ pc = "gb_write"
    /\ pos < NChunks
    /\ pos' = pos + 1
    /\ dir' = IF Chunk(DownloadUrl(book), pos + 1) # <<>>
              THEN Write(dir, Target, Chunk(DownloadUrl(book), pos + 1))
              ELSE dir
    /\ pc' = IF pos + 1 = NChunks THEN "gb_done" ELSE "gb_write"
    /\ UNCHANGED <<overwrite, file_format, page_number, status_code, books, idx,
                   resp_ok, opened, requests, dirBefore, completed, item>>

\* r.iter_content (connection lost) or f.write (disk full) raises: nothing
\* catches it, the with blocks close the file as it is
IterContentError ==
    /\ pc = "gb_write"
    /\ pc' = "ConnectionError"
    /\ UNCHANGED <<overwrite, file_format, page_number, status_code, books, idx,
                   dir, resp_ok, pos, opened, requests, dirBefore, completed, item>>

GbDone ==
    /\ pc = "gb_done"
    /\ pc' = "for_book"
    /\ completed' = [f \in DOMAIN completed \cup {Target} |->
                        IF f = Target THEN dir[Target] ELSE completed[f]]
    /\ UNCHANGED <<overwrite, file_format, page_number, status_code, books, idx,
                   dir, resp_ok, pos, opened, requests, dirBefore, item>>

(***************************************************************************)
(* KeyboardInterrupt and main's handler.                                   *)
(***************************************************************************)
\* The interrupt is raised between two bytecodes of the main thread: inside
\* get_book the try of main catches it, anywhere else nothing does.
KeyboardInterrupt ==
    /\ pc \in RunningPcs
    /\ pc' = IF pc \in GbPcs THEN "except" ELSE "KeyboardInterrupt"
    /\ UNCHANGED <<overwrite, file_format, page_number, status_code, books, idx,
                   dir, resp_ok, pos, opened, requests, dirBefore, completed, item>>

\* the except clause: flush_unfinished_book(book), then exit("(!) Exit forced");
\* os.remove raises FileNotFoundError when the file is not there
flush_unfinished_book ==
    /\ pc = "except"
    /\ IF Exists(dir, Target)
       THEN /\ dir' = Remove(dir, Target)
            /\ pc' = "forced"
       ELSE /\ pc' = "FileNotFoundError"
            /\ UNCHANGED dir
    /\ UNCHANGED <<overwrite, file_format, page_number, status_code, books, idx,
                   resp_ok, pos, opened, requests, dirBefore, completed, item>>

Next ==
    \/ ForPage
    \/ GetPage
    \/ ForBook
    \/ GbCheck
    \/ GbSkip
    \/ GbRequest
    \/ RaiseForStatus
    \/ GbOpen
    \/ GbWrite
    \/ IterContentError
    \/ GbDone
    \/ KeyboardInterrupt
    \/ flush_unfinished_book

Spec == Init /\ [][Next]_vars

(***************************************************************************)
(* Book on its own: the anchor is drawn from bounded sets of texts and     *)
(* hrefs, then Book.__init__ runs on it.                                   *)
(***************************************************************************)
TitleChars == {"a", " ", "\\", "/", ":", "*", "?", "<", ">", "|"}

Titles == UNION { [1..n -> TitleChars] : n \in 0..MaxTitleLen }

Pieces == { <<"/">>, Marker, <<"1">>, <<"b","o","o">>, <<"k","/">> }

RECURSIVE HrefsOf(_)
HrefsOf(n) ==
    IF n = 0 THEN { <<>> }
    ELSE HrefsOf(n - 1) \cup { h \o p : h \in HrefsOf(n - 1), p \in Pieces }

ExampleHref == <<"b","o","o","k","/","a","b","c","1","2","3">>

SiteHref == <<"/">> \o ExampleHref

Hrefs == HrefsOf(MaxPieces) \cup {ExampleHref, SiteHref}

BookInputs == { Anchor(t, SiteHref) : t \in Titles }
                 \cup { Anchor(<<"a">>, h) : h \in Hrefs }

InitBook ==
    /\ overwrite = FALSE
    /\ file_format \in Formats
    /\ page_number = 1
    /\ status_code = 200
    /\ books = <<>>
    /\ idx = 0
    /\ pc = "new_book"
    /\ dir = EmptyDir
    /\ resp_ok = TRUE
    /\ pos = 0
    /\ opened = FALSE
    /\ requests = 0
    /\ dirBefore = EmptyDir
    /\ completed = EmptyDir
    /\ item \in BookInputs

\* Book(item.text, item["href"], file_format)
BookInit ==
    /\ pc = "new_book"
    /\ books' = <<Book(item.text, item.href, file_format)>>
    /\ idx' = 1
    /\ pc' = "book"
    /\ UNCHANGED <<overwrite, file_format, page_number, status_code, dir, resp_ok,
                   pos, opened, requests, dirBefore, completed, item>>

NextBook == BookInit

SpecBook == InitBook /\ [][NextBook]_vars

(***************************************************************************)
(* Properties.                                                             *)
(***************************************************************************)
\* a get_book call has been entered and is running or is the last one made
Called == idx >= 1 /\ pc \in GbPcs \cup {"for_book", "except"}

\* the bytes of a whole download, of this run or of an earlier one
IsComplete(content) ==
    \/ content = OldPayload
    \/ \E it \in Items :
          content = Payload(DownloadUrl(Book(it.text, it.href, file_format)))

\* C1: after an interrupt inside get_book and the handler's flush, the files
\* of the books completed earlier in the run are still there with their
\* bytes, the file the interrupted call had started to write is gone, and
\* the process, once terminated, fetches and writes nothing more.
C1_InterruptKeepsCompleted ==
    /\ [](pc \in {"forced", "FileNotFoundError"} =>
            /\ \A f \in DOMAIN completed : Exists(dir, f) /\ dir[f] = completed[f]
            /\ opened => ~Exists(dir, Target))
    /\ [][pc \notin {"forced", "FileNotFoundError"}]_vars

\* C2: a get_book call made with overwrite = false for a file that is already
\* in the folder issues no download request and leaves every file of the
\* folder, the target included, as it was.
C2_SkipIsNoOp ==
    (~overwrite /\ Called /\ Exists(dirBefore, Target)) =>
        (requests = 0 /\ dir = dirBefore)

C2_Witness ==
    /\ ~overwrite /\ idx >= 1 /\ pc = "for_book"
    /\ Exists(dirBefore, Target)
    /\ Exists(dir, OtherFile)

\* C3: with overwrite = true a get_book call that runs to its end, by return
\* or by a failure of the download, has issued the download request, and
\* when it returns the target file holds exactly the streamed body, whether
\* or not the file was there before.
C3_OverwriteReplaces ==
    (overwrite /\ idx >= 1) =>
        /\ pc \in {"for_book", "HTTPError", "ConnectionError"} => requests = 1
        /\ pc = "for_book" =>
              Exists(dir, Target) /\ dir[Target] = Payload(DownloadUrl(book))

C3_Witness ==
    /\ overwrite /\ idx >= 1 /\ pc = "for_book"
    /\ Exists(dirBefore, Target)
    /\ dirBefore[Target] = OldPayload
    /\ dir[Target] = Payload(DownloadUrl(book))

\* C4: after a listing page answered with a status other than 200 no book
\* is extracted for it and the page loop goes on with the next page.
C4_FailedPageIsSkipped ==
    status_code # 200 =>
        /\ books = <<>>
        /\ pc \in {"for_book", "for_page", "get_page", "done", "KeyboardInterrupt"}

\* C5: the title a Book stores contains no character of windows_bad_chars,
\* and cleaning it again returns it unchanged.
C5_CleanTitleIdempotent ==
    pc = "book" =>
        /\ \A i \in 1..Len(book._title), j \in 1..Len(windows_bad_chars) :
              book._title[i] # windows_bad_chars[j]
        /\ CleanTitle(book._title) = book._title

\* positions at which old occurs in s
Occurrences(s, old) ==
    { i \in 1..(Len(s) - Len(old) + 1) : SubSeq(s, i, i + Len(old) - 1) = old }

\* the url expected for an href whose only marker is at position i
Expected(b, i) ==
    BASE_URL \o SubSeq(b._href, 1, i - 1) \o b._formatter.url_modifier
             \o SubSeq(b._href, i + Len(Marker), Len(b._href))
             \o <<".">> \o b._formatter.extension

OnceReplaced ==
    \A i \in Occurrences(book._href, Marker) :
        Occurrences(book._href, Marker) = {i} => DownloadUrl(book) = Expected(book, i)

IsExample == book._href = ExampleHref /\ book._formatter = FormatsPdf

\* C6 as stated: an href with exactly one marker has that occurrence replaced
\* by the url_modifier and "." + extension appended after the base url, and
\* "book/abc123" with pdf gives "{base}/content/pdf/abc123.pdf".
C6_DownloadUrlExample ==
    pc = "book" =>
        /\ OnceReplaced
        /\ IsExample =>
              DownloadUrl(book) = BASE_URL \o <<"/">> \o FormatsPdf.url_modifier
                                    \o <<"a","b","c","1","2","3",".","p","d","f">>

\* C6 amended: an href with exactly one marker has that occurrence replaced
\* by the url_modifier and "." + extension appended, the result following the
\* base url with nothing in between: "book/abc123" with pdf gives
\* "{base}content/pdf/abc123.pdf".
C6_DownloadUrl ==
    pc = "book" =>
        /\ OnceReplaced
        /\ IsExample =>
              DownloadUrl(book) = BASE_URL \o FormatsPdf.url_modifier
                                    \o <<"a","b","c","1","2","3",".","p","d","f">>

C6_Witness ==
    /\ pc = "book"
    /\ IsExample
    /\ Cardinality(Occurrences(book._href, Marker)) = 1

FlushStep ==
    (pc = "except" /\ pc' \in {"forced", "FileNotFoundError"}) =>
        /\ ~Exists(dir', Target)
        /\ Exists(dir, Target) => pc' = "forced"
        /\ DOMAIN dir' = DOMAIN dir \ {Target}
        /\ \A f \in DOMAIN dir' : dir'[f] = dir[f]

\* C7: the handler's flush_unfinished_book(book) leaves the folder without
\* the book's file, removing it when it is there, and every other file is
\* still present afterwards with the same bytes; no file appears.
C7_FlushFrame == [][FlushStep]_vars

C7_Witness ==
    /\ pc = "forced"
    /\ Exists(dirBefore, Target)
    /\ ~Exists(dir, Target)
    /\ DOMAIN dir # {}

\* C8: whenever the handler is about to call flush_unfinished_book, the
\* target file exists and was opened for writing by the interrupted call.
C8_FlushOnlyAfterOpen ==
    pc = "except" => (Exists(dir, Target) /\ opened)

\* C9: when the download GET answers with an error status, get_book raises
\* before the target file is opened, the folder is as it was when the call
\* was entered, and the run ends there: no step follows.
C9_HttpErrorAborts ==
    /\ [](pc = "HTTPError" =>
            (requests = 1 /\ ~resp_ok /\ ~opened /\ dir = dirBefore))
    /\ [][pc # "HTTPError"]_vars

C9_Witness ==
    /\ pc = "HTTPError"
    /\ Exists(dir, Target)
    /\ idx < Len(books)

\* C10: once the process has terminated, in whatever way, every file of the
\* folder holds the whole payload of a download.
C10_NoTruncatedFile ==
    pc \in TerminalPcs => \A f \in DOMAIN dir : IsComplete(dir[f])

====
